---- MODULE Spec2Model ----
(***************************************************************************)
(* Model of the is-svg crate (src/src/lib.rs).                             *)
(*                                                                         *)
(* The crate has three predicates over a byte slice: is_svg, is_svg_string *)
(* and is_svgz.  is_svg hands the whole slice to the tree builder of the   *)
(* usvg crate (Tree::from_data) with Options::default() and keeps only     *)
(* is_ok() of the Result.  The two other predicates combine is_svg with     *)
(* <[u8]>::starts_with(&GZIP_MAGIC_NUMBER).                                 *)
(*                                                                         *)
(* Bytes are naturals in 0..255 and a slice is a sequence of bytes.  The   *)
(* builder is not part of the crate: it is modelled by its contract        *)
(* (gzip detection, decompression, UTF-8 decoding, XML parsing, root       *)
(* element check) over a reduced document language in which an element     *)
(* name is one byte.                                                       *)
(***************************************************************************)
EXTENDS Integers, Sequences, FiniteSets, TLC

(***************************************************************************)
(* Bounds of the input space.                                              *)
(***************************************************************************)
\* Every byte sequence over Alphabet of length 0..MaxLen is an input.
MaxLen == 2

(***************************************************************************)
(* Bytes.                                                                  *)
(***************************************************************************)
\* The bytes the inputs are made of: 0x1f and 0x8b (the gzip identification
\* bytes), '<' (60), '>' (62), '/' (47), 's' (115, the name of the svg
\* element) and 'm' (109, the name of any other element: math, html).
Alphabet == {31, 139, 60, 62, 47, 115, 109}

\* Variant: the two bytes in the other order.
GZIP_MAGIC_NUMBER_swapped == <<139, 31>>

\* const GZIP_MAGIC_NUMBER: [u8; 2] = [0x1f, 0x8b];
GZIP_MAGIC_NUMBER == <<31, 139>>

(***************************************************************************)
(* <[u8]>::starts_with: the needle is compared with the first needle.len() *)
(* bytes of the slice when the slice is long enough, and the test is false *)
(* (no out-of-bounds read) when it is shorter.                             *)
(***************************************************************************)
\* Variant: only the first byte is compared.
starts_with_first_byte(data, needle) ==
    /\ Len(data) >= 1
    /\ data[1] = needle[1]

\* Variant: only the bytes both sequences have are compared, so a slice
\* shorter than the needle can match.
starts_with_overlap(data, needle) ==
    \A i \in 1..Len(needle) : i <= Len(data) => data[i] = needle[i]

starts_with(data, needle) ==
    /\ Len(data) >= Len(needle)
    /\ SubSeq(data, 1, Len(needle)) = needle

(***************************************************************************)
(* The tree builder (usvg).  Result values are records tagged Ok or Err.   *)
(***************************************************************************)
Ok(v) == [tag |-> "Ok", val |-> v]
Err(e) == [tag |-> "Err", val |-> e]
is_ok(r) == r.tag = "Ok"

\* Options::default()
Options_default == [dpi |-> 96]

\* std::str::from_utf8 over the byte alphabet: a byte below 0x80 is a
\* one-byte character; the alphabet has no lead byte, so any byte from 0x80
\* on is an invalid sequence.
from_utf8(data) ==
    IF \A i \in 1..Len(data) : data[i] < 128
    THEN Ok(data)
    ELSE Err("NotAnUtf8Str")

\* Checksum of the gzip trailer (stands for CRC32): one byte.
gz_checksum(t) ==
    LET RECURSIVE Sum(_)
        Sum(i) == IF i = 0 THEN 0 ELSE (Sum(i - 1) + t[i]) % 256
    IN Sum(Len(t))

\* Decompression of a gzip member: the two identification bytes, one byte
\* holding the stored length, the stored bytes, one checksum byte.  Any
\* other shape (truncated, wrong length, wrong checksum) is malformed.
decompress_svgz(data) ==
    IF /\ Len(data) >= 4
       /\ SubSeq(data, 1, 2) = <<31, 139>>
       /\ Len(data) = data[3] + 4
       /\ data[Len(data)] = gz_checksum(SubSeq(data, 4, Len(data) - 1))
    THEN Ok(SubSeq(data, 4, Len(data) - 1))
    ELSE Err("MalformedGZip")

\* XML element parser (roxmltree): parses one element of text t that starts
\* at position i;  returns the position after it and its name, or next = 0
\* when the text is not well formed there.
\*   element ::= '<' name '/' '>'  |  '<' name '>' element* '<' '/' name '>'
IsName(b) == b \in {115, 109}

RECURSIVE parse_element(_, _)
RECURSIVE parse_children(_, _)
parse_element(t, i) ==
    IF i + 2 > Len(t) \/ t[i] # 60 \/ ~IsName(t[i + 1])
    THEN [next |-> 0, name |-> 0]
    ELSE IF t[i + 2] = 47
         THEN IF i + 3 <= Len(t) /\ t[i + 3] = 62
              THEN [next |-> i + 4, name |-> t[i + 1]]
              ELSE [next |-> 0, name |-> 0]
         ELSE IF t[i + 2] # 62
              THEN [next |-> 0, name |-> 0]
              ELSE LET j == parse_children(t, i + 3)
                   IN IF /\ j # 0
                         /\ j + 3 <= Len(t)
                         /\ t[j] = 60
                         /\ t[j + 1] = 47
                         /\ t[j + 2] = t[i + 1]
                         /\ t[j + 3] = 62
                      THEN [next |-> j + 4, name |-> t[i + 1]]
                      ELSE [next |-> 0, name |-> 0]

\* Parses element* from position i; returns the position of the first byte
\* that does not start a child element (the closing tag), or 0 on error.
parse_children(t, i) ==
    IF i + 1 <= Len(t) /\ t[i] = 60 /\ t[i + 1] # 47
    THEN LET e == parse_element(t, i)
         IN IF e.next = 0 THEN 0 ELSE parse_children(t, e.next)
    ELSE i

\* Tree::from_str: the text must be one well-formed element, and the root
\* element must be svg.
from_str(text, opt) ==
    LET e == parse_element(text, 1)
    IN IF Len(text) = 0 \/ e.next = 0 \/ e.next # Len(text) + 1
       THEN Err("ParsingFailed")
       ELSE IF e.name # 115
            THEN Err("NotAnSvg")
            ELSE Ok([root |-> e.name])

\* Tree::from_data: a buffer with the gzip identification bytes is
\* decompressed first; the bytes are then decoded as UTF-8 and parsed.
from_data(data, opt) ==
    LET raw == IF Len(data) >= 2 /\ data[1] = 31 /\ data[2] = 139
               THEN decompress_svgz(data)
               ELSE Ok(data)
    IN IF ~is_ok(raw)
       THEN raw
       ELSE LET text == from_utf8(raw.val)
            IN IF ~is_ok(text) THEN text ELSE from_str(text.val, opt)

(***************************************************************************)
(* State.  The crate keeps none: the variables are the caller's buffer,    *)
(* the builder's answer for it, and the record of the calls made on it.    *)
(***************************************************************************)
VARIABLES
    buf,        \* the caller's buffer
    tree,       \* the Result the builder returns for buf
    called,     \* the predicates called on buf so far
    ret,        \* ret[f]: what the last call of f on buf returned
    last,       \* the predicate called last, "none" before any call
    lastExec    \* the record of the last call

\* What an observer of the calls keeps.
VARIABLES
    seen        \* one earlier call: predicate, buffer, value returned

\* Threads that call the predicates at the same time.
VARIABLES
    th,         \* th[t]: the call that thread t is in, step by step
    accepts     \* the buffers that the builder accepts

\* The example program examples/issvg.rs.
VARIABLES
    cli         \* where main is, what it has read and written, its exit

\* The variables that the caller of Spec and SpecAnyBuilder does not have.
Others == <<seen, th, accepts, cli>>

vars == <<buf, tree, called, ret, last, lastExec, seen, th, accepts, cli>>

(***************************************************************************)
(* The crate.  Each predicate is given with the record of what its call    *)
(* does: the value returned, the arguments of every builder call, in       *)
(* order, and the number of prefix tests evaluated.  `&&` evaluates its    *)
(* right operand only when the left one is true.                           *)
(***************************************************************************)
\* The call Tree::from_data(data, &opt): on the caller's buffer the builder
\* returns tree.
Tree_from_data(data, opt) ==
    IF data = buf /\ opt = Options_default THEN tree ELSE from_data(data, opt)

\* AsRef<[u8]>::as_ref: the byte view of the argument, the same bytes.
as_ref(data) == data

\* Variant: is_err() in place of is_ok().
is_svg_exec_is_err(data) ==
    LET d == as_ref(data)
        opt == Options_default
    IN [ret |-> ~is_ok(Tree_from_data(d, opt)),
        builder |-> <<[data |-> d, opt |-> opt]>>,
        prefix |-> 0]

\* Variant: the gzip identification bytes are cut off before the builder is
\* called.
is_svg_exec_strips_magic(data) ==
    LET d == IF starts_with(as_ref(data), GZIP_MAGIC_NUMBER)
             THEN SubSeq(as_ref(data), 3, Len(as_ref(data)))
             ELSE as_ref(data)
        opt == Options_default
    IN [ret |-> is_ok(Tree_from_data(d, opt)),
        builder |-> <<[data |-> d, opt |-> opt]>>,
        prefix |-> 0]

\* Variant: the answer of the call before is kept and returned again.
is_svg_exec_memo(data) ==
    LET d == as_ref(data)
        opt == Options_default
    IN [ret |-> IF last # "none"
                THEN lastExec.ret
                ELSE is_ok(Tree_from_data(d, opt)),
        builder |-> <<[data |-> d, opt |-> opt]>>,
        prefix |-> 0]

is_svg_exec(data) ==
    LET d == as_ref(data)
        opt == Options_default
    IN [ret |-> is_ok(Tree_from_data(d, opt)),
        builder |-> <<[data |-> d, opt |-> opt]>>,
        prefix |-> 0]

is_svg(data) == is_svg_exec(data).ret

\* Variant: the negation of the prefix test is missing.
is_svg_string_exec_no_negation(data) ==
    LET d == as_ref(data)
        l == is_svg_exec(d)
    IN IF l.ret
       THEN [ret |-> starts_with(d, GZIP_MAGIC_NUMBER),
             builder |-> l.builder,
             prefix |-> 1]
       ELSE [ret |-> FALSE, builder |-> l.builder, prefix |-> 0]

is_svg_string_exec(data) ==
    LET d == as_ref(data)
        l == is_svg_exec(d)
    IN IF l.ret
       THEN [ret |-> ~starts_with(d, GZIP_MAGIC_NUMBER),
             builder |-> l.builder,
             prefix |-> 1]
       ELSE [ret |-> FALSE, builder |-> l.builder, prefix |-> 0]

is_svg_string(data) == is_svg_string_exec(data).ret

\* Variant: `||` in place of `&&`.
is_svgz_exec_or(data) ==
    LET d == as_ref(data)
        l == is_svg_exec(d)
    IN IF l.ret
       THEN [ret |-> TRUE, builder |-> l.builder, prefix |-> 0]
       ELSE [ret |-> starts_with(d, GZIP_MAGIC_NUMBER),
             builder |-> l.builder,
             prefix |-> 1]

\* Variant: the prefix test is missing.
is_svgz_exec_no_prefix_test(data) ==
    LET d == as_ref(data)
        l == is_svg_exec(d)
    IN [ret |-> l.ret, builder |-> l.builder, prefix |-> 0]

is_svgz_exec(data) ==
    LET d == as_ref(data)
        l == is_svg_exec(d)
    IN IF l.ret
       THEN [ret |-> starts_with(d, GZIP_MAGIC_NUMBER),
             builder |-> l.builder,
             prefix |-> 1]
       ELSE [ret |-> FALSE, builder |-> l.builder, prefix |-> 0]

is_svgz(data) == is_svgz_exec(data).ret

(***************************************************************************)
(* Inputs.                                                                 *)
(***************************************************************************)
\* All byte sequences over Alphabet of length 0..MaxLen.
ShortBuffers == UNION {[1..n -> Alphabet] : n \in 0..MaxLen}

\* Texts in the manner of the test corpus.
SvgText == <<60, 115, 47, 62>>                       \* <s/>
SvgNestedText == <<60, 115, 62, 60, 109, 47, 62, 60, 47, 115, 62>>
                                                     \* <s><m/></s>
UnclosedText == <<60, 115, 62, 60, 109, 47, 62>>     \* <s><m/>
MathText == <<60, 109, 62, 60, 47, 109, 62>>         \* <m></m>
Texts == {SvgText, SvgNestedText, UnclosedText, MathText}

\* The gzip member that holds text t (how the .svgz and .gz fixtures were
\* made): identification bytes, stored length, the bytes, checksum.
gzip(t) == <<31, 139, Len(t)>> \o t \o <<gz_checksum(t)>>

\* A gzip member with its last byte cut off.
truncated(d) == SubSeq(d, 1, Len(d) - 1)

\* Other containers around a text: lzip ("LZ") and Zstandard (0x28 0xb5)
\* and PNG (0x89 'P') signatures in front of the bytes.
other_container(sig, t) == sig \o t
OtherSignatures == {<<76, 90>>, <<40, 181>>, <<137, 80>>}

\* A text compressed by another algorithm: the signature of the container,
\* then bytes that are not the bytes of the text (here their complements).
compressed(sig, t) == sig \o [i \in 1..Len(t) |-> 255 - t[i]]
CompressionSignatures == {<<76, 90>>, <<40, 181>>}

\* The SVG payload compressed by lzip or Zstandard (svg-logo-v.svg.lz,
\* svg-logo-v.svg.zst).
NonGzipCompressed ==
    {compressed(sig, t) : sig \in CompressionSignatures,
                          t \in {SvgText, SvgNestedText}}

\* The gzip identification bytes in front of a text that is not a gzip
\* member.
SignatureThenText == {other_container(<<31, 139>>, t) : t \in Texts}

Fixtures ==
    Texts
    \cup {gzip(t) : t \in Texts \cup {<<>>}}
    \cup {truncated(gzip(t)) : t \in Texts}
    \cup {other_container(sig, t) : sig \in OtherSignatures, t \in Texts}
    \cup NonGzipCompressed
    \cup SignatureThenText

Buffers == ShortBuffers \cup Fixtures

(***************************************************************************)
(* The caller: it holds one buffer and calls the predicates on it.         *)
(*                                                                         *)
(* Spec: the builder is the usvg builder (from_data).                      *)
(* SpecAnyBuilder: the builder is any function of the bytes, so its answer *)
(* for the caller's buffer is any Result.                                  *)
(***************************************************************************)
Fns == {"is_svg", "is_svg_string", "is_svgz"}

Results == {Ok([root |-> 115]), Err("ParsingFailed")}

NoExec == [ret |-> FALSE, builder |-> <<>>, prefix |-> 0]

NoCalls ==
    /\ called = {}
    /\ ret = [f \in Fns |-> FALSE]
    /\ last = "none"
    /\ lastExec = NoExec

\* A buffer just taken: no call made on it yet.
Fresh ==
    /\ called' = {}
    /\ ret' = [f \in Fns |-> FALSE]
    /\ last' = "none"
    /\ lastExec' = NoExec

\* Nothing observed yet.
NoSeen == [f |-> "none", data |-> <<>>, ret |-> FALSE, moved |-> FALSE]

(***************************************************************************)
(* The calls, step by step.  A call has its argument and its intermediate  *)
(* values on the stack of its thread: th[t] is that frame.  The steps are  *)
(* the call of the builder and, for is_svg_string and is_svgz when the     *)
(* builder has succeeded, the prefix test.                                 *)
(***************************************************************************)
Threads == {"t1", "t2"}

ThreadBuffers == {<<>>, <<31>>, <<31, 139>>, SvgText, gzip(SvgText)}

\* The buffers of ThreadBuffers that the usvg builder accepts.
UsvgAccepted == {d \in ThreadBuffers : is_ok(from_data(d, Options_default))}

Idle == [pc |-> "idle", f |-> "none", data |-> <<>>, ok |-> FALSE,
         ret |-> FALSE, trace |-> <<>>]

\* The call Tree::from_data(data, &opt) made by a thread.
Thread_from_data(data, opt) ==
    IF data \in accepts THEN Ok([root |-> 115]) ELSE Err("ParsingFailed")

\* Variant: the argument is kept in one place for all threads, so a call
\* reads the buffer of another call that is under way.
InnerData_static(t) ==
    LET busy == {u \in Threads \ {t} : th[u].pc # "idle"}
    IN IF busy = {} THEN th[t].data ELSE th[CHOOSE u \in busy : TRUE].data

\* The parameter `data: &[u8]` of the closure `inner` of thread t's call.
InnerData(t) == th[t].data

\* Variant: the prefix test comes first and the builder is not called
\* when the two leading bytes decide.
step_call_prefix_first(f, data) ==
    IF \/ f = "is_svgz" /\ ~starts_with(as_ref(data), GZIP_MAGIC_NUMBER)
       \/ f = "is_svg_string" /\ starts_with(as_ref(data), GZIP_MAGIC_NUMBER)
    THEN [Idle EXCEPT !.pc = "done", !.f = f, !.data = as_ref(data)]
    ELSE [Idle EXCEPT !.pc = "builder", !.f = f, !.data = as_ref(data)]

\* Entry: inner(data.as_ref()); the first thing evaluated is the call of
\* the builder (for is_svg_string and is_svgz, the left operand of `&&`).
step_call(f, data) ==
    [Idle EXCEPT !.pc = "builder", !.f = f, !.data = as_ref(data)]

\* Variant: the builder takes the buffer and leaves it empty.
step_builder_drains(r, d) ==
    LET opt == Options_default
        ok == is_ok(Thread_from_data(d, opt))
        tr == Append(r.trace, [ev |-> "from_data", data |-> d, opt |-> opt])
    IN IF r.f = "is_svg" \/ ~ok
       THEN [r EXCEPT !.pc = "done", !.ok = ok, !.ret = ok, !.trace = tr,
                      !.data = <<>>]
       ELSE [r EXCEPT !.pc = "prefix", !.ok = ok, !.trace = tr,
                      !.data = <<>>]

\* Tree::from_data(data, &opt).is_ok(): is_svg returns it; in the two
\* other predicates a false value is returned at once.
step_builder(r, d) ==
    LET opt == Options_default
        ok == is_ok(Thread_from_data(d, opt))
        tr == Append(r.trace, [ev |-> "from_data", data |-> d, opt |-> opt])
    IN IF r.f = "is_svg" \/ ~ok
       THEN [r EXCEPT !.pc = "done", !.ok = ok, !.ret = ok, !.trace = tr]
       ELSE [r EXCEPT !.pc = "prefix", !.ok = ok, !.trace = tr]

\* Variant: the length of the slice is not looked at.
prefix_span_unchecked(data, needle) == Len(needle)

\* The number of leading bytes of data that starts_with reads.
prefix_span(data, needle) ==
    IF Len(data) >= Len(needle) THEN Len(needle) ELSE 0

\* data.starts_with(&GZIP_MAGIC_NUMBER), negated in is_svg_string; a read
\* past the end of the slice would be a panic.
step_prefix(r, d) ==
    LET p == starts_with(d, GZIP_MAGIC_NUMBER)
        tr == Append(r.trace, [ev |-> "starts_with", data |-> d])
    IN IF prefix_span(d, GZIP_MAGIC_NUMBER) > Len(d)
       THEN [r EXCEPT !.pc = "panic", !.trace = tr]
       ELSE [r EXCEPT !.pc = "done",
                      !.ret = IF r.f = "is_svgz" THEN p ELSE ~p,
                      !.trace = tr]

(***************************************************************************)
(* The example program (examples/issvg.rs), step by step: the arguments    *)
(* are parsed, the input is read from the file or from standard input,     *)
(* the input is classified.  A Result::Err that main returns is printed on *)
(* standard error and the exit status is 1.                                *)
(***************************************************************************)
MsgValid == "given data is a valid SVG image"
MsgInvalid == "given data is not a valid SVG image"
MsgNoFile == "could not read data from FILE"
MsgNoStdin == "could not read data from standard input"

\* main has not exited: no exit status yet.
Running == 0 - 1

CliStart == [pc |-> "start", arg |-> "none", src |-> "none", read |-> "none",
             input |-> <<>>, calls |-> 0, stdout |-> <<>>, stderr |-> <<>>,
             exit |-> Running]

\* let opt = Opt::parse(): opt.input is Some(file) or None.
cli_parse(r, arg) == [r EXCEPT !.pc = "read", !.arg = arg]

\* Where the input is read from: fs::read(&file) with a path, otherwise
\* io::stdin().read_to_end(&mut buf).
cli_source(r) == IF r.arg = "file" THEN "file" ELSE "stdin"

\* Variant: a failed read leaves an empty input and main goes on.
cli_read_or_default(r, src, res) ==
    [r EXCEPT !.pc = "classify", !.src = src,
              !.read = IF is_ok(res) THEN "ok" ELSE "failed",
              !.input = IF is_ok(res) THEN res.val ELSE <<>>]

\* The read, with the Result res of the operating system: `?` returns the
\* error from main, with its context, when the read has failed.
cli_read(r, src, res) ==
    IF is_ok(res)
    THEN [r EXCEPT !.pc = "classify", !.src = src, !.read = "ok",
                   !.input = res.val]
    ELSE [r EXCEPT !.pc = "exit", !.src = src, !.read = "failed",
                   !.stderr = <<IF src = "file" THEN MsgNoFile
                                ELSE MsgNoStdin>>,
                   !.exit = 1]

\* Variant: is_svg_string in place of is_svg.
cli_verdict_string(data) == is_svg_string_exec(data).ret

\* is_svg::is_svg(input)
cli_verdict(data) == is_svg_exec(data).ret

\* if is_svg::is_svg(input) { println!(..); Ok(()) } else { Err(anyhow!(..)) }
cli_classify(r) ==
    IF cli_verdict(r.input)
    THEN [r EXCEPT !.pc = "exit", !.calls = r.calls + 1,
                   !.stdout = <<MsgValid>>, !.exit = 0]
    ELSE [r EXCEPT !.pc = "exit", !.calls = r.calls + 1,
                   !.stderr = <<MsgInvalid>>, !.exit = 1]

OthersInit ==
    /\ seen = NoSeen
    /\ th = [t \in Threads |-> Idle]
    /\ accepts = UsvgAccepted
    /\ cli = CliStart

Init ==
    /\ buf \in Buffers
    /\ tree = from_data(buf, Options_default)
    /\ NoCalls
    /\ OthersInit

InitAnyBuilder ==
    /\ buf \in Buffers
    /\ tree \in Results
    /\ NoCalls
    /\ OthersInit

\* The caller takes another buffer.
NewInput ==
    /\ \E d \in Buffers :
          /\ buf' = d
          /\ tree' = from_data(d, Options_default)
    /\ Fresh
    /\ UNCHANGED Others

NewInputAnyBuilder ==
    /\ \E d \in Buffers : buf' = d
    /\ \E r \in Results : tree' = r
    /\ Fresh
    /\ UNCHANGED Others

Returned(f, e) ==
    /\ called' = called \cup {f}
    /\ ret' = [ret EXCEPT ![f] = e.ret]
    /\ last' = f
    /\ lastExec' = e
    /\ UNCHANGED <<buf, tree>>
    /\ UNCHANGED Others

Call_is_svg == Returned("is_svg", is_svg_exec(buf))

Call_is_svg_string == Returned("is_svg_string", is_svg_string_exec(buf))

Call_is_svgz == Returned("is_svgz", is_svgz_exec(buf))

Next ==
    \/ NewInput
    \/ Call_is_svg
    \/ Call_is_svg_string
    \/ Call_is_svgz

Spec == Init /\ [][Next]_vars

NextAnyBuilder ==
    \/ NewInputAnyBuilder
    \/ Call_is_svg
    \/ Call_is_svg_string
    \/ Call_is_svgz

SpecAnyBuilder == InitAnyBuilder /\ [][NextAnyBuilder]_vars

(***************************************************************************)
(* SpecHistory: the caller goes from buffer to buffer, and an observer     *)
(* keeps the outcome of one call to compare later calls with.              *)
(***************************************************************************)
HistoryBuffers ==
    {<<>>, <<31, 139>>, SvgText, MathText, gzip(SvgText), gzip(<<>>)}

InitHistory ==
    /\ buf \in HistoryBuffers
    /\ tree = from_data(buf, Options_default)
    /\ NoCalls
    /\ OthersInit

\* The caller takes another buffer (or the same one again).
NewInputHistory ==
    /\ \E d \in HistoryBuffers :
          /\ buf' = d
          /\ tree' = from_data(d, Options_default)
    /\ Fresh
    /\ seen' = IF seen.f = "none" THEN seen ELSE [seen EXCEPT !.moved = TRUE]
    /\ UNCHANGED <<th, accepts, cli>>

\* The observer keeps the outcome of the call just made.
Observe ==
    /\ seen.f = "none"
    /\ last # "none"
    /\ seen' = [f |-> last, data |-> buf, ret |-> lastExec.ret,
                moved |-> FALSE]
    /\ UNCHANGED <<buf, tree, called, ret, last, lastExec>>
    /\ UNCHANGED <<th, accepts, cli>>

NextHistory ==
    \/ NewInputHistory
    \/ Observe
    \/ Call_is_svg
    \/ Call_is_svg_string
    \/ Call_is_svgz

SpecHistory == InitHistory /\ [][NextHistory]_vars

(***************************************************************************)
(* SpecThreads: two threads call the predicates, each at its own pace.     *)
(* SpecThreadsAnyBuilder: the same with a builder that is any function of  *)
(* the bytes.  SpecThreadsFair: the same again, where a thread that is in  *)
(* a call goes on running and the builder returns.                         *)
(***************************************************************************)
InitThreads ==
    /\ buf = <<>>
    /\ tree = from_data(buf, Options_default)
    /\ NoCalls
    /\ OthersInit

InitThreadsAnyBuilder ==
    /\ buf = <<>>
    /\ tree = from_data(buf, Options_default)
    /\ NoCalls
    /\ seen = NoSeen
    /\ th = [t \in Threads |-> Idle]
    /\ accepts \in SUBSET ThreadBuffers
    /\ cli = CliStart

ThreadStep(t, r) ==
    /\ th' = [th EXCEPT ![t] = r]
    /\ UNCHANGED <<buf, tree, called, ret, last, lastExec, seen, accepts>>
    /\ UNCHANGED cli

T_Call(t) ==
    /\ th[t].pc = "idle"
    /\ \E f \in Fns, d \in ThreadBuffers : ThreadStep(t, step_call(f, d))

T_Builder(t) ==
    /\ th[t].pc = "builder"
    /\ ThreadStep(t, step_builder(th[t], InnerData(t)))

T_Prefix(t) ==
    /\ th[t].pc = "prefix"
    /\ ThreadStep(t, step_prefix(th[t], InnerData(t)))

\* The value is back with the caller; the frame is gone.
T_Return(t) ==
    /\ th[t].pc = "done"
    /\ ThreadStep(t, Idle)

NextThreads ==
    \E t \in Threads :
        \/ T_Call(t)
        \/ T_Builder(t)
        \/ T_Prefix(t)
        \/ T_Return(t)

SpecThreads == InitThreads /\ [][NextThreads]_vars

SpecThreadsAnyBuilder == InitThreadsAnyBuilder /\ [][NextThreads]_vars

SpecThreadsFair ==
    /\ InitThreadsAnyBuilder
    /\ [][NextThreads]_vars
    /\ \A t \in Threads : WF_vars(T_Builder(t)) /\ WF_vars(T_Prefix(t))

(***************************************************************************)
(* SpecCli: one run of the example program.  The file and standard input   *)
(* hold any buffer, and the read of either may fail.                        *)
(***************************************************************************)
ReadResults == {Ok(d) : d \in Buffers} \cup {Err("io")}

InitCli ==
    /\ buf = <<>>
    /\ tree = from_data(buf, Options_default)
    /\ NoCalls
    /\ OthersInit

CliStep(r) ==
    /\ cli' = r
    /\ UNCHANGED <<buf, tree, called, ret, last, lastExec, seen, th, accepts>>

Cli_Parse ==
    /\ cli.pc = "start"
    /\ \E a \in {"file", "none"} : CliStep(cli_parse(cli, a))

Cli_ReadFile ==
    /\ cli.pc = "read"
    /\ cli_source(cli) = "file"
    /\ \E res \in ReadResults : CliStep(cli_read(cli, "file", res))

Cli_ReadStdin ==
    /\ cli.pc = "read"
    /\ cli_source(cli) = "stdin"
    /\ \E res \in ReadResults : CliStep(cli_read(cli, "stdin", res))

Cli_Classify ==
    /\ cli.pc = "classify"
    /\ CliStep(cli_classify(cli))

NextCli ==
    \/ Cli_Parse
    \/ Cli_ReadFile
    \/ Cli_ReadStdin
    \/ Cli_Classify

SpecCli == InitCli /\ [][NextCli]_vars

TypeOK ==
    /\ buf \in Buffers
    /\ tree \in {Ok([root |-> 115])} \cup {Err(e) : e \in {"NotAnUtf8Str", "MalformedGZip", "ParsingFailed", "NotAnSvg"}}
    /\ called \subseteq Fns
    /\ ret \in [Fns -> BOOLEAN]
    /\ last \in Fns \cup {"none"}
    /\ lastExec.ret \in BOOLEAN
    /\ lastExec.prefix \in 0..1

(***************************************************************************)
(* Properties.                                                             *)
(***************************************************************************)
\* d starts with the two bytes 0x1F 0x8B.
HasGzipSignature(d) == Len(d) >= 2 /\ d[1] = 31 /\ d[2] = 139

\* The usvg builder accepts d.
BuilderAccepts(d) == from_data(d, Options_default).tag = "Ok"

\* C1: is_svg returns true exactly when the builder,
\* called once on the whole buffer with the default options, succeeds; a
\* failure of the builder is the value false, and the call returns nothing
\* but a boolean.
C1_IsSvgIffBuilderSucceeds ==
    /\ "is_svg" \in called => ret["is_svg"] = (tree.tag = "Ok")
    /\ last = "is_svg" =>
          /\ lastExec.builder = <<[data |-> buf, opt |-> Options_default]>>
          /\ lastExec.ret \in BOOLEAN
          /\ lastExec.ret = (tree.tag = "Ok")

\* is_svg has returned false on a buffer that the builder fails on.
C1_Witness ==
    /\ last = "is_svg"
    /\ tree.tag = "Err"
    /\ ret["is_svg"] = FALSE
    /\ lastExec.builder = <<[data |-> buf, opt |-> Options_default]>>

\* C2: for every buffer d, is_svg_string(d) equals
\* is_svg(d) and not (d starts with 0x1F 0x8B).
C2_IsSvgStringDefinition ==
    {"is_svg", "is_svg_string"} \subseteq called =>
        ret["is_svg_string"] = (ret["is_svg"] /\ ~HasGzipSignature(buf))

\* Both predicates were called on a buffer with the signature that the
\* builder accepts: is_svg is true and is_svg_string is false.
C2_Witness ==
    /\ {"is_svg", "is_svg_string"} \subseteq called
    /\ HasGzipSignature(buf)
    /\ ret["is_svg"] = TRUE
    /\ ret["is_svg_string"] = FALSE

\* C3: for every buffer d, is_svgz(d) equals
\* is_svg(d) and (d starts with 0x1F 0x8B).
C3_IsSvgzDefinition ==
    {"is_svg", "is_svgz"} \subseteq called =>
        ret["is_svgz"] = (ret["is_svg"] /\ HasGzipSignature(buf))

\* Both predicates were called on a buffer with the signature that the
\* builder accepts: is_svg is true and is_svgz is true.
C3_Witness ==
    /\ {"is_svg", "is_svgz"} \subseteq called
    /\ HasGzipSignature(buf)
    /\ ret["is_svg"] = TRUE
    /\ ret["is_svgz"] = TRUE

\* C4: is_svg_string(d) and is_svgz(d) are never both true.
C4_MutualExclusion ==
    {"is_svg_string", "is_svgz"} \subseteq called =>
        ~(ret["is_svg_string"] /\ ret["is_svgz"])

\* Both predicates were called on an accepted buffer: one is true, the
\* other false.
C4_Witness ==
    /\ {"is_svg_string", "is_svgz"} \subseteq called
    /\ tree.tag = "Ok"
    /\ ret["is_svg_string"] = TRUE
    /\ ret["is_svgz"] = FALSE

\* C5: is_svg(d) equals is_svg_string(d) or is_svgz(d), and exactly one of
\* is_svg_string(d), is_svgz(d) is true if and only if is_svg(d) is true.
C5_Coverage ==
    called = Fns =>
        /\ ret["is_svg"] = (ret["is_svg_string"] \/ ret["is_svgz"])
        /\ ret["is_svg"] = (ret["is_svg_string"] # ret["is_svgz"])

\* The three predicates were called on an accepted buffer without the
\* signature: is_svg is true and only is_svg_string of the two is true.
C5_Witness ==
    /\ called = Fns
    /\ ~HasGzipSignature(buf)
    /\ ret["is_svg"] = TRUE
    /\ ret["is_svg_string"] = TRUE
    /\ ret["is_svgz"] = FALSE

\* C6: on a buffer that the usvg builder accepts and that does not start
\* with 0x1F 0x8B, is_svg is true, is_svg_string is true and is_svgz is
\* false.
C6_UncompressedSvg ==
    (BuilderAccepts(buf) /\ ~HasGzipSignature(buf)) =>
        /\ "is_svg" \in called => ret["is_svg"] = TRUE
        /\ "is_svg_string" \in called => ret["is_svg_string"] = TRUE
        /\ "is_svgz" \in called => ret["is_svgz"] = FALSE

\* The three predicates were called on the document <s><m/></s>.
C6_Witness ==
    /\ buf = SvgNestedText
    /\ BuilderAccepts(buf)
    /\ called = Fns
    /\ ret = [is_svg |-> TRUE, is_svg_string |-> TRUE, is_svgz |-> FALSE]

\* C7: on a buffer that starts with 0x1F 0x8B and that the usvg builder
\* decompresses and accepts, is_svg is true, is_svg_string is false and
\* is_svgz is true.
C7_CompressedSvg ==
    (BuilderAccepts(buf) /\ HasGzipSignature(buf)) =>
        /\ "is_svg" \in called => ret["is_svg"] = TRUE
        /\ "is_svg_string" \in called => ret["is_svg_string"] = FALSE
        /\ "is_svgz" \in called => ret["is_svgz"] = TRUE

\* The three predicates were called on the gzip member of <s/>.
C7_Witness ==
    /\ buf = gzip(SvgText)
    /\ BuilderAccepts(buf)
    /\ called = Fns
    /\ ret = [is_svg |-> TRUE, is_svg_string |-> FALSE, is_svgz |-> TRUE]

\* C8: on a buffer that the usvg builder rejects, is_svg is false and so
\* are is_svg_string and is_svgz.
C8_RejectedInput ==
    ~BuilderAccepts(buf) => \A f \in called : ret[f] = FALSE

\* The three predicates were called on a rejected buffer without the gzip
\* signature: another XML document, an unclosed fragment, or PNG bytes.
C8_Witness ==
    /\ buf \in {MathText, UnclosedText, other_container(<<137, 80>>, SvgText)}
    /\ ~BuilderAccepts(buf)
    /\ called = Fns
    /\ \A f \in Fns : ret[f] = FALSE

\* C9: on a buffer of length less than 2, the empty buffer included,
\* is_svg, is_svg_string and is_svgz all return false.
C9_ShortBuffer ==
    Len(buf) < 2 => \A f \in called : ret[f] = FALSE

\* The three predicates were called on a buffer of one byte.
C9_Witness ==
    /\ Len(buf) = 1
    /\ called = Fns
    /\ \A f \in Fns : ret[f] = FALSE

\* C10: whatever the builder answers, is_svgz is false on a buffer of
\* length less than 2.
C10_ShortBufferNotSvgz ==
    (Len(buf) < 2 /\ "is_svgz" \in called) => ret["is_svgz"] = FALSE

\* is_svgz was called on a buffer of length less than 2 that the builder
\* accepts: the prefix test was evaluated and was false.
C10_Witness ==
    /\ Len(buf) < 2
    /\ tree.tag = "Ok"
    /\ last = "is_svgz"
    /\ lastExec.prefix = 1
    /\ lastExec.ret = FALSE

\* What the usvg builder does with the bytes of a gzip member d: it fails to
\* decompress them, or the decompressed bytes are no SVG document.
BadGzipPayload(d) ==
    LET p == decompress_svgz(d)
    IN \/ ~is_ok(p)
       \/ ~is_ok(from_utf8(p.val))
       \/ ~is_ok(from_str(p.val, Options_default))

\* C11: on a buffer that starts with 0x1F 0x8B and is not a valid gzip
\* member, or decompresses to an empty or non-SVG payload, is_svg is false
\* and so are is_svg_string and is_svgz.
C11_BadGzip ==
    (HasGzipSignature(buf) /\ BadGzipPayload(buf)) =>
        \A f \in called : ret[f] = FALSE

\* The three predicates were called on the gzip member of the empty text,
\* which decompresses, and all returned false.
C11_Witness ==
    /\ buf = gzip(<<>>)
    /\ is_ok(decompress_svgz(buf))
    /\ called = Fns
    /\ last = "is_svgz"
    /\ \A f \in Fns : ret[f] = FALSE

\* C12: on a buffer that holds an SVG payload compressed by another
\* algorithm than gzip (lzip, Zstandard), is_svg, is_svg_string and is_svgz
\* are false.
C12_OtherCompression ==
    buf \in NonGzipCompressed => \A f \in called : ret[f] = FALSE

\* The three predicates were called on the Zstandard-compressed document
\* and all returned false.
C12_Witness ==
    /\ buf = compressed(<<40, 181>>, SvgText)
    /\ called = Fns
    /\ last = "is_svg_string"
    /\ \A f \in Fns : ret[f] = FALSE

\* C13: a call of a predicate on a buffer returns what an earlier call of
\* the same predicate on the same buffer returned, whatever calls were made
\* in between, on this buffer or on others.
C13_Determinism ==
    (seen.f # "none" /\ last = seen.f /\ buf = seen.data) =>
        lastExec.ret = seen.ret

\* is_svgz returned true on the gzip member of <s/>, the caller then went
\* to other buffers, came back to it, and is_svgz returned true again.
C13_Witness ==
    /\ seen = [f |-> "is_svgz", data |-> gzip(SvgText), ret |-> TRUE,
               moved |-> TRUE]
    /\ buf = seen.data
    /\ last = "is_svgz"
    /\ called = {"is_svg_string", "is_svgz"}
    /\ lastExec.ret = TRUE

\* What predicate f returns on buffer d when its call runs alone.
Alone(f, d) ==
    CASE f = "is_svg" -> BuilderAccepts(d)
      [] f = "is_svg_string" -> BuilderAccepts(d) /\ ~HasGzipSignature(d)
      [] f = "is_svgz" -> BuilderAccepts(d) /\ HasGzipSignature(d)

\* C14: when several threads call the predicates at the same time, on the
\* same buffer or on different ones, each call returns, under every
\* interleaving of their steps, what it returns when it runs alone.
C14_Concurrent ==
    \A t \in Threads :
        th[t].pc = "done" => th[t].ret = Alone(th[t].f, th[t].data)

\* Thread t1 has finished is_svgz on the gzip member of <s/> with true
\* while thread t2 is in the middle of is_svg_string on <s/>.
C14_Witness ==
    /\ th["t1"].pc = "done"
    /\ th["t1"].f = "is_svgz"
    /\ th["t1"].data = gzip(SvgText)
    /\ th["t1"].ret = TRUE
    /\ th["t2"].pc = "prefix"
    /\ th["t2"].f = "is_svg_string"
    /\ th["t2"].data = SvgText

\* The events of a call on buffer d: the call of the builder, the prefix
\* test.
BuilderEvent(d) == [ev |-> "from_data", data |-> d, opt |-> Options_default]
PrefixEvent(d) == [ev |-> "starts_with", data |-> d]

\* C18: a call of is_svg_string or is_svgz calls the builder exactly once,
\* on the whole buffer as passed, before the prefix test; it does so even
\* when the two leading bytes already decide the result, and it makes no
\* prefix test when the builder has failed.
C18_BuilderFirst ==
    \A t \in Threads :
        th[t].f \in {"is_svg_string", "is_svgz"} =>
            /\ th[t].pc = "builder" => th[t].trace = <<>>
            /\ th[t].pc = "prefix" =>
                  /\ th[t].trace = <<BuilderEvent(th[t].data)>>
                  /\ BuilderAccepts(th[t].data)
            /\ th[t].pc = "done" =>
                  th[t].trace = IF BuilderAccepts(th[t].data)
                                THEN <<BuilderEvent(th[t].data),
                                       PrefixEvent(th[t].data)>>
                                ELSE <<BuilderEvent(th[t].data)>>

\* is_svgz has returned false on <s/>, a buffer without the signature: the
\* builder was called on it, then the prefix test was made.
C18_Witness ==
    /\ th["t1"].pc = "done"
    /\ th["t1"].f = "is_svgz"
    /\ th["t1"].data = SvgText
    /\ th["t1"].ret = FALSE
    /\ th["t1"].trace = <<BuilderEvent(SvgText), PrefixEvent(SvgText)>>
    /\ th["t2"].pc = "idle"

\* C19: whatever the builder answers, and provided it returns, a call of
\* any of the three predicates on a buffer of any length, 0 and 1
\* included, ends with a boolean; the prefix test reads no byte past the
\* end of the buffer and does not fail.
C19_Terminates ==
    /\ [](\A t \in Threads : th[t].pc # "panic" /\ th[t].ret \in BOOLEAN)
    /\ \A t \in Threads :
          (th[t].pc \in {"builder", "prefix"}) ~> (th[t].pc = "done")

\* is_svg_string has returned true on a buffer of one byte that the
\* builder accepts, after the prefix test on it.
C19_Witness ==
    /\ th["t1"].pc = "done"
    /\ th["t1"].f = "is_svg_string"
    /\ th["t1"].data = <<31>>
    /\ th["t1"].data \in accepts
    /\ th["t1"].trace = <<BuilderEvent(<<31>>), PrefixEvent(<<31>>)>>
    /\ th["t1"].ret = TRUE

\* C15: the steps of a call leave the buffer passed to it as it is, change
\* nothing but the frame of the call, and the frame is gone when the call
\* has returned: nothing of a call is kept.
C15_Frame ==
    [][\A t \in Threads :
          /\ th[t].pc \in {"builder", "prefix"} =>
                th'[t].data = th[t].data /\ th'[t].f = th[t].f
          /\ (th[t].pc = "done" /\ th'[t] # th[t]) => th'[t] = Idle
          /\ th'[t] # th[t] =>
                /\ \A u \in Threads \ {t} : th'[u] = th[u]
                /\ UNCHANGED <<buf, tree, accepts, seen>>]_vars

\* is_svg has returned true on the gzip member of <s/>, which is still the
\* buffer of the call, and the other thread has no call under way.
C15_Witness ==
    /\ th["t1"].pc = "done"
    /\ th["t1"].f = "is_svg"
    /\ th["t1"].data = gzip(SvgText)
    /\ th["t1"].ret = TRUE
    /\ th["t1"].trace = <<BuilderEvent(gzip(SvgText))>>
    /\ th["t2"] = Idle

\* C16: once the example program has read its input, it prints the success
\* message and exits with 0 if and only if is_svg of the input is true,
\* and otherwise it reports an error and exits with a status other than 0;
\* a gzip member of an SVG document is accepted too.
C16_CliVerdict ==
    (cli.pc = "exit" /\ cli.read = "ok") =>
        IF BuilderAccepts(cli.input)
        THEN cli.exit = 0 /\ cli.stdout = <<MsgValid>> /\ cli.stderr = <<>>
        ELSE cli.exit # 0 /\ cli.stdout = <<>> /\ cli.stderr = <<MsgInvalid>>

\* The program has read the gzip member of <s><m/></s> from standard
\* input, printed the success message and exited with 0.
C16_Witness ==
    /\ cli.pc = "exit"
    /\ cli.src = "stdin"
    /\ cli.read = "ok"
    /\ cli.input = gzip(SvgNestedText)
    /\ cli.stdout = <<MsgValid>>
    /\ cli.exit = 0

\* C17: the example program reads the file when a path is given and
\* standard input only when none is given; when the read fails it exits
\* with a status other than 0, has not called is_svg and has not printed
\* the success message.
C17_CliRead ==
    /\ cli.src = "file" => cli.arg = "file"
    /\ cli.src = "stdin" => cli.arg = "none"
    /\ cli.pc \in {"classify", "exit"} => cli.src # "none"
    /\ cli.calls > 0 => cli.read = "ok"
    /\ cli.read = "failed" =>
          /\ cli.pc = "exit"
          /\ cli.exit # 0
          /\ cli.exit # Running
          /\ cli.calls = 0
          /\ cli.stdout = <<>>
          /\ cli.stderr # <<>>

\* The read of the file has failed and the program has exited with 1
\* without a call of is_svg.
C17_Witness ==
    /\ cli.pc = "exit"
    /\ cli.arg = "file"
    /\ cli.src = "file"
    /\ cli.read = "failed"
    /\ cli.calls = 0
    /\ cli.exit = 1

\* C20: a buffer whose first byte is 0x1F and whose second byte is not
\* 0x8B, or whose first bytes are 0x8B 0x1F, does not count as having the
\* gzip signature: when the builder accepts it, is_svg_string is true and
\* is_svgz is false.
C20_NearSignature ==
    ( /\ Len(buf) >= 2
      /\ \/ buf[1] = 31 /\ buf[2] # 139
         \/ buf[1] = 139 /\ buf[2] = 31
      /\ tree.tag = "Ok" ) =>
        /\ "is_svg_string" \in called => ret["is_svg_string"] = TRUE
        /\ "is_svgz" \in called => ret["is_svgz"] = FALSE

\* The two predicates were called on the buffer 0x1F '<', which the builder
\* accepts.
C20_Witness ==
    /\ buf = <<31, 60>>
    /\ tree.tag = "Ok"
    /\ called = {"is_svg_string", "is_svgz"}
    /\ ret["is_svg_string"] = TRUE
    /\ ret["is_svgz"] = FALSE

====
